---------------------------- MODULE Spec2Model ----------------------------
(***************************************************************************)
(* A model of wikilite: the whole-corpus import WikiLite.from_jsonl        *)
(* (base.py), the bounded-depth relationship query                         *)
(* get_relationships_with_depth (frontend/helpers.py) and the batch        *)
(* importer WiktionaryImporter (importer.py) driven by import_data         *)
(* (__main__.py) inside Database.session (database.py).                    *)
(*                                                                         *)
(* A table is a sequence of rows; a row's id is its position, which is     *)
(* what SQLite's rowid gives to rows inserted into an empty table from     *)
(* which nothing is deleted.                                               *)
(***************************************************************************)
EXTENDS Integers, Sequences, FiniteSets, Bags, TLC

\* ------------------------------------------------------------------ bounds
\* Number of source records one from_jsonl run reads.
MaxEntries == 2
\* Number of Triplet rows of a store that is queried.
MaxTriplets == 3
\* Largest depth argument of a query.
MaxDepth == 3
\* Number of import_word calls made on one importer.
MaxStream == 3
\* The rows of a batch of _import_words (BATCH_SIZE, base.py 26, is 100_000:
\* scaled down so that batches fill).
BATCH_SIZE == 2

\* ---------------------------------------------------------------- helpers
Range(s) == {s[i] : i \in 1..Len(s)}

RECURSIVE Perms(_)
\* Every order in which the elements of a finite set can be iterated.
Perms(S) ==
    IF S = {} THEN {<<>>}
    ELSE UNION {{<<x>> \o p : p \in Perms(S \ {x})} : x \in S}

RECURSIVE Flatten(_)
\* Concatenation of a sequence of sequences.
Flatten(ss) == IF ss = <<>> THEN <<>> ELSE Head(ss) \o Flatten(Tail(ss))

VARIABLES
    \* --- WikiLite.from_jsonl (base.py)
    jpc,        \* position in from_jsonl: "load", "filter", "words", "triples", "done"
    source,     \* the records wiktextract.load has yielded so far
    data,       \* word -> definition -> [examples], in insertion order
    triples,    \* the set of literal triples (subject, predicate, object)
    Word,       \* table word: rows [word, definition]
    Example,    \* table example: rows [word_id, example]
    Triplet,    \* table triplet: rows [subject_id, predicate, object_id]
    \* --- get_relationships_with_depth (frontend/helpers.py)
    qpc,        \* position in the query: "idle", "base", "recursive", "done"
    word_id,    \* argument word_id
    depth,      \* argument depth
    rel_types,  \* argument rel_types: [none |-> BOOLEAN, list |-> sequence]
    queue,      \* rows of relationship_tree the recursive part has yet to read
    relationship_tree,  \* the rows of the CTE (a bag: UNION ALL keeps duplicates)
    result      \* the list returned, as Triplet ids

VARIABLES
    \* --- WiktionaryImporter (importer.py) inside import_data (__main__.py)
    ipc,                \* "idle"; "open": session open, importer built;
                        \* "raising": an exception is leaving the with block;
                        \* "aborted": rolled back; "closed": committed and closed
    batch_size,         \* WiktionaryImporter.batch_size
    entries_processed,  \* WiktionaryImporter._entries_processed
    pending_words,      \* WiktionaryImporter._pending_words
    pending_senses,     \* WiktionaryImporter._pending_senses
    pending_glosses,    \* WiktionaryImporter._pending_glosses
    pending_examples,   \* WiktionaryImporter._pending_examples
    pending_forms,      \* WiktionaryImporter._pending_forms
    pending_relations,  \* WiktionaryImporter._pending_relations
    cache,              \* the three caches: kind -> name -> id (0: no id yet)
    session_new,        \* Category/Topic/Tag objects added to the session, not flushed
    tx,                 \* the tables as the session's open transaction sees them
    db,                 \* the tables as committed: the store
    stream,             \* the entries passed to import_word so far
    finalized,          \* finalize() has returned
    raised,             \* the write whose exception left import_word/finalize, or NoException
    calls,              \* the calls made on the importer so far, with their outcome
    file,               \* the source file of this run of import_data: name, size, modification time
    prior,              \* the earlier run of import_data, if any: its file, its stream, the store it left
    reference,          \* a second importer, of a batch size above the length of the stream, given the same entries
    last_commit         \* the store as the previous commit left it

\* populate_database (populate_db.py)
VARIABLES
    dpc,                \* position of populate_database: start, loop, done, exists, failed
    force,              \* the force argument
    output,             \* the database file at output_path: NoStore or its committed tables
    old_output,         \* the database file at output_path when populate_database was called
    session,            \* the Session: the tables as its transaction sees them, the objects added and not flushed
    lines,              \* the lines of the input file read so far, after the first line_num - Len(lines)
    line_num,           \* the number of lines read so far
    processed,          \* the processed counter
    skipped             \* the skipped counter

jvars == <<jpc, source, data, triples, Word, Example, Triplet>>
qvars == <<qpc, word_id, depth, rel_types, queue, relationship_tree, result>>
pvars == <<pending_words, pending_senses, pending_glosses, pending_examples,
           pending_forms, pending_relations>>
rvars == <<file, prior>>

ivars == <<ipc, batch_size, entries_processed, pvars, cache, session_new, tx, db,
           stream, finalized, raised, calls, reference, last_commit, rvars>>
dvars == <<dpc, force, output, old_output, session, lines, line_num, processed, skipped>>
vars == <<jvars, qvars, ivars, dvars>>

\* ------------------------------------------------------- source records
\* The value of sense.definition that stands for "raises ValueError".
NoDefinition == "<none>"

\* The senses a source record may carry: none at all, one without any gloss,
\* one defined sense with an example (and an empty example text), two
\* defined senses.
SenseOptions ==
    { <<>>,
      << [definition |-> NoDefinition, examples |-> <<>>] >>,
      << [definition |-> "d1", examples |-> <<"e1", "">>] >>,
      << [definition |-> "d1", examples |-> <<>>],
         [definition |-> "d2", examples |-> <<"e2">>] >> }

\* Literals that source records define, and literals that relations name.
DefinedLiterals == {"cat", "kitty"}
LinkOptions == { <<>>, <<"kitty">>, <<"cat">>, <<"puss">> }

\* The records the loader may yield (wiktextract.WordEntry, reduced to the
\* fields from_jsonl reads).
WordEntry ==
    [word : DefinedLiterals, senses : SenseOptions,
     synonyms : LinkOptions, antonyms : {<<>>, <<"kitty">>}]

\* Predicate canonicalization: the fixed plural -> singular table; an
\* unmapped name passes through unchanged.
singularize_relation(rel) ==
    CASE rel = "synonyms" -> "synonym"
      [] rel = "antonyms" -> "antonym"
      [] rel = "hypernyms" -> "hypernym"
      [] rel = "hyponyms" -> "hyponym"
      [] rel = "meronyms" -> "meronym"
      [] rel = "holonyms" -> "holonym"
      [] OTHER -> rel

\* The relation lists of a record, as (relation name, links) pairs in
\* iteration order.
get_relations(entry) ==
    << <<"synonyms", entry.synonyms>>, <<"antonyms", entry.antonyms>> >>

LinkTriplesFirstOnly(word, rel, links) ==
    {<<word, IF i = 1 THEN singularize_relation(rel) ELSE rel, links[i]>> :
        i \in 1..Len(links)}

RECURSIVE LinkTriples(_, _, _)
\* base.py 145-148: the inner loop over the links of one relation list; rel
\* is reassigned to its canonical form at every link.
LinkTriples(word, rel, links) ==
    IF links = <<>> THEN {}
    ELSE LET r == singularize_relation(rel)
         IN  {<<word, r, Head(links)>>} \cup LinkTriples(word, r, Tail(links))

\* base.py 143-148: the triples one record adds.
EntryTriples(entry) ==
    LET rels == get_relations(entry)
    IN  UNION {LinkTriples(entry.word, rels[i][1], rels[i][2]) : i \in 1..Len(rels)}

\* ------------------------------------------------------------- data dict
DataKeys(d) == {d[i].word : i \in 1..Len(d)}
DataIndex(d, w) == CHOOSE i \in 1..Len(d) : d[i].word = w
DefKeys(defs) == {defs[i].definition : i \in 1..Len(defs)}
DefIndex(defs, definition) == CHOOSE i \in 1..Len(defs) : defs[i].definition = definition

\* base.py 159: the example texts kept, [e.text for e in sense.examples if e.text]
KeptExamples(examples) == SelectSeq(examples, LAMBDA e : e # "")

\* base.py 150-160: one sense of a record folded into data.
AddSense(d, word, sense) ==
    IF sense.definition = NoDefinition THEN d
    ELSE LET d1 == IF word \in DataKeys(d) THEN d
                   ELSE Append(d, [word |-> word, defs |-> <<>>])
             i == DataIndex(d1, word)
             defs1 == IF sense.definition \in DefKeys(d1[i].defs) THEN d1[i].defs
                      ELSE Append(d1[i].defs,
                                  [definition |-> sense.definition, examples |-> <<>>])
             j == DefIndex(defs1, sense.definition)
             defs2 == [defs1 EXCEPT ![j].examples = @ \o KeptExamples(sense.examples)]
         IN  [d1 EXCEPT ![i].defs = defs2]

RECURSIVE AddSenses(_, _, _)
\* base.py 149-160: the loop over entry.senses.
AddSenses(d, word, senses) ==
    IF senses = <<>> THEN d
    ELSE AddSenses(AddSense(d, word, Head(senses)), word, Tail(senses))

\* --------------------------------------------------------- closure filter
\* base.py 161-164: words in triples, intersected with the words in data.
ClosureWords(d, ts) ==
    ({t[1] : t \in ts} \cup {t[3] : t \in ts}) \cap DataKeys(d)

\* base.py 166
FilterData(d, words) == SelectSeq(d, LAMBDA item : item.word \in words)

\* base.py 168
FilterTriples(ts, words) == {t \in ts : t[1] \in words \/ t[3] \in words}

\* ---------------------------------------------------------- _import_words
\* base.py 35-49: one Word row per (word, definition), in data order.
WordRows(d) ==
    Flatten([i \in 1..Len(d) |->
        [j \in 1..Len(d[i].defs) |->
            [word |-> d[i].word, definition |-> d[i].defs[j].definition]]])

WordMapAll(table, literal) == [i \in 1..Len(table) |-> i]

\* word_map: the ids of the Word rows of a literal, in table order.
WordMap(table, literal) ==
    SelectSeq([i \in 1..Len(table) |-> i], LAMBDA i : table[i].word = literal)

RECURSIVE AddInBatches(_, _, _)
\* base.py 34-49, 52-70: the rows are collected in a batch; a batch of
\* BATCH_SIZE rows is added to the session and flushed, and what is left at
\* the end is added as the last batch.
AddInBatches(table, rows, batch) ==
    IF rows = <<>> THEN table \o batch
    ELSE LET b == Append(batch, Head(rows))
         IN  IF Len(b) >= BATCH_SIZE
             THEN AddInBatches(table \o b, Tail(rows), <<>>)
             ELSE AddInBatches(table, Tail(rows), b)

\* ExampleRows with every example of a literal attached to the literal's
\* first Word row.
ExampleRowsFirstWord(d, table) ==
    Flatten([i \in 1..Len(d) |->
        LET word_objs == WordMap(table, d[i].word)
        IN  IF word_objs = <<>> THEN <<>>
            ELSE Flatten([j \in 1..Len(d[i].defs) |->
                    [k \in 1..Len(d[i].defs[j].examples) |->
                        [word_id |-> word_objs[1],
                         example |-> d[i].defs[j].examples[k]]]])])

\* base.py 53-70: the Example rows; the Word rows of a literal are zipped
\* with its definitions.
ExampleRows(d, table) ==
    Flatten([i \in 1..Len(d) |->
        LET word_objs == WordMap(table, d[i].word)
            n == IF Len(word_objs) < Len(d[i].defs) THEN Len(word_objs)
                 ELSE Len(d[i].defs)
        IN  Flatten([j \in 1..n |->
                [k \in 1..Len(d[i].defs[j].examples) |->
                    [word_id |-> word_objs[j],
                     example |-> d[i].defs[j].examples[k]]]])])

\* -------------------------------------------------------- _import_triples
\* TripleRows with a literal that has no Word row resolved to the id None
\* would be stored as (0), instead of yielding no row.
TripleRowsPlaceholder(table, t) ==
    LET found_s == WordMap(table, t[1])
        found_o == WordMap(table, t[3])
        subject_objs == IF found_s = <<>> THEN <<0>> ELSE found_s
        object_objs == IF found_o = <<>> THEN <<0>> ELSE found_o
    IN  Flatten([a \in 1..Len(subject_objs) |->
            [b \in 1..Len(object_objs) |->
                [subject_id |-> subject_objs[a], predicate |-> t[2],
                 object_id |-> object_objs[b]]]])

\* TripleRows with the subject rows zipped with the object rows.
TripleRowsZipped(table, t) ==
    LET subject_objs == WordMap(table, t[1])
        object_objs == WordMap(table, t[3])
        n == IF Len(subject_objs) < Len(object_objs) THEN Len(subject_objs)
             ELSE Len(object_objs)
    IN  [a \in 1..n |->
            [subject_id |-> subject_objs[a], predicate |-> t[2],
             object_id |-> object_objs[a]]]

\* base.py 92-101: the Triplet rows of one literal triple, every subject row
\* with every object row.
TripleRows(table, t) ==
    LET subject_objs == WordMap(table, t[1])
        object_objs == WordMap(table, t[3])
    IN  Flatten([a \in 1..Len(subject_objs) |->
            [b \in 1..Len(object_objs) |->
                [subject_id |-> subject_objs[a], predicate |-> t[2],
                 object_id |-> object_objs[b]]]])

\* base.py 89-110: the rows of all triples, in the iteration order given.
TripletRows(table, order) ==
    Flatten([i \in 1..Len(order) |-> TripleRows(table, order[i])])

\* ------------------------------------------------------------ from_jsonl
\* No query is running.
QueryIdle ==
    /\ qpc = "idle"
    /\ word_id = 0
    /\ depth = 1
    /\ rel_types = [none |-> TRUE, list |-> <<>>]
    /\ queue = EmptyBag
    /\ relationship_tree = EmptyBag
    /\ result = <<>>

\* The empty tables of the importer's schema.
EmptyTables ==
    [words |-> <<>>, senses |-> <<>>, glosses |-> <<>>, examples |-> <<>>,
     forms |-> <<>>, relations |-> <<>>,
     category |-> <<>>, topic |-> <<>>, tag |-> <<>>]

EmptyCache == [category |-> <<>>, topic |-> <<>>, tag |-> <<>>]

\* No importer exists.
\* importer.py 24-51: the importer as constructed on an empty store.
NewImporter ==
    [words |-> <<>>, senses |-> <<>>, glosses |-> <<>>, examples |-> <<>>,
     forms |-> <<>>, relations |-> <<>>, cache |-> EmptyCache, session_new |-> <<>>]

\* The JSONL file given to import_data; the modification time is in tenths
\* of a second.
SourceFile == [name |-> "en.jsonl", size |-> 1, mtime |-> 10]

\* No run of import_data came before this one.
NoPrior == [file |-> [name |-> "", size |-> 0, mtime |-> 0], stream |-> <<>>, db |-> EmptyTables]

\* No exception has left a call on the importer.
NoException == "none"

\* output_path does not exist.
NoStore == [exists |-> FALSE]

\* populate_db.py 455-456: the tables create_all makes, without rows.
EmptyStore == [exists |-> TRUE, entries |-> <<>>, linkages |-> <<>>]

\* populate_database is not running.
PopulateIdle ==
    /\ dpc = "idle"
    /\ force = FALSE
    /\ output = NoStore
    /\ old_output = NoStore
    /\ session = [tx |-> NoStore, new |-> <<>>]
    /\ lines = <<>>
    /\ line_num = 0
    /\ processed = 0
    /\ skipped = 0

ImporterIdle ==
    /\ ipc = "idle"
    /\ batch_size = 1
    /\ entries_processed = 0
    /\ pending_words = <<>>
    /\ pending_senses = <<>>
    /\ pending_glosses = <<>>
    /\ pending_examples = <<>>
    /\ pending_forms = <<>>
    /\ pending_relations = <<>>
    /\ cache = EmptyCache
    /\ session_new = <<>>
    /\ tx = EmptyTables
    /\ db = EmptyTables
    /\ stream = <<>>
    /\ finalized = FALSE
    /\ raised = NoException
    /\ calls = <<>>
    /\ file = SourceFile
    /\ prior = NoPrior
    /\ reference = NewImporter
    /\ last_commit = EmptyTables

\* base.py 137-141: a fresh instance, the store dropped and recreated.
InitJsonl ==
    /\ QueryIdle
    /\ ImporterIdle
    /\ PopulateIdle
    /\ jpc = "load"
    /\ source = <<>>
    /\ data = <<>>
    /\ triples = {}
    /\ Word = <<>>
    /\ Example = <<>>
    /\ Triplet = <<>>

\* base.py 142-160: one iteration of the loop over the loaded records, the
\* record being one of pool.
LoadFrom(pool) ==
    /\ jpc = "load"
    /\ Len(source) < MaxEntries
    /\ \E entry \in pool :
        /\ source' = Append(source, entry)
        /\ triples' = triples \cup EntryTriples(entry)
        /\ data' = AddSenses(data, entry.word, entry.senses)
    /\ UNCHANGED <<jpc, Word, Example, Triplet, qvars, ivars, dvars>>

LoadEntry == LoadFrom(WordEntry)

\* The loader is exhausted.
EndOfSource ==
    /\ jpc = "load"
    /\ jpc' = "filter"
    /\ UNCHANGED <<source, data, triples, Word, Example, Triplet, qvars, ivars, dvars>>

\* base.py 161-168: the closure filter.
ClosureFilter ==
    /\ jpc = "filter"
    /\ LET words == ClosureWords(data, triples)
       IN  /\ data' = FilterData(data, words)
           /\ triples' = FilterTriples(triples, words)
    /\ jpc' = "words"
    /\ UNCHANGED <<source, Word, Example, Triplet, qvars, ivars, dvars>>

\* base.py 170, 24-72: _import_words.
ImportWords ==
    /\ jpc = "words"
    /\ Word' = AddInBatches(Word, WordRows(data), <<>>)
    /\ Example' = AddInBatches(Example, ExampleRows(data, Word'), <<>>)
    /\ jpc' = "triples"
    /\ UNCHANGED <<source, data, triples, Triplet, qvars, ivars, dvars>>

\* base.py 172, 75-113: _import_triples; a Python set is iterated in an
\* order the program does not control.
ImportTriples ==
    /\ jpc = "triples"
    /\ \E order \in Perms(triples) :
        Triplet' = Triplet \o TripletRows(Word, order)
    /\ jpc' = "done"
    /\ UNCHANGED <<source, data, triples, Word, Example, qvars, ivars, dvars>>

NextJsonl == LoadEntry \/ EndOfSource \/ ClosureFilter \/ ImportWords \/ ImportTriples

SpecJsonl == InitJsonl /\ [][NextJsonl]_vars

\* ------------------------------------------------- claims on from_jsonl
WordIds == 1..Len(Word)
LiteralsOfTriples(ts) == {t[1] : t \in ts} \cup {t[3] : t \in ts}

\* C1: after from_jsonl, the subject_id and the object_id of every Triplet
\* row are ids of Word rows of the same store, also when a source triple
\* names a literal without definition.
C1_NoDanglingEndpoints ==
    jpc = "done" =>
        \A i \in 1..Len(Triplet) :
            Triplet[i].subject_id \in WordIds /\ Triplet[i].object_id \in WordIds

\* C1 witness: a finished import that stored edges although one of the
\* triples it kept names a literal no record defines.
C1_Witness ==
    /\ jpc = "done"
    /\ Triplet # <<>>
    /\ \E t \in triples : t[3] \notin DataKeys(data)

\* C2: after from_jsonl, every Word row is the subject or the object of at
\* least one Triplet row.
C2_EveryWordHasTriplet ==
    jpc = "done" =>
        \A w \in WordIds :
            \E i \in 1..Len(Triplet) :
                Triplet[i].subject_id = w \/ Triplet[i].object_id = w

\* ====================================================================
\* get_relationships_with_depth (frontend/helpers.py 69-126; the same query
\* is written as SQL text in frontend/app.py 58-104 and st_app.py 65-112)
\* ====================================================================

\* The words of a queried store.
QueryWords ==
    << [word |-> "A", definition |-> "d"], [word |-> "B", definition |-> "d"],
       [word |-> "C", definition |-> "d"], [word |-> "D", definition |-> "d"] >>

\* The hand-built graph A-synonym-B, B-antonym-C, C-hypernym-D.
HandBuilt ==
    << [subject_id |-> 1, predicate |-> "synonym", object_id |-> 2],
       [subject_id |-> 2, predicate |-> "antonym", object_id |-> 3],
       [subject_id |-> 3, predicate |-> "hypernym", object_id |-> 4] >>

\* The edges a queried store is built from: the three of the hand-built
\* graph, a reverse edge and a chord (cycles) and a self-loop.  A sequence
\* may repeat an edge (parallel edges).
EdgeChoices ==
    Range(HandBuilt) \cup
    { [subject_id |-> 2, predicate |-> "synonym", object_id |-> 1],
      [subject_id |-> 3, predicate |-> "synonym", object_id |-> 1],
      [subject_id |-> 1, predicate |-> "synonym", object_id |-> 1] }

TripletTables == UNION {[1..n -> EdgeChoices] : n \in 0..MaxTriplets}

\* An id that is no Word of the store.
UnknownWordId == Len(QueryWords) + 1

StartChoices == {1, UnknownWordId}

None == [none |-> TRUE, list |-> <<>>]
List(l) == [none |-> FALSE, list |-> l]
RelTypeChoices == {None, List(<<>>), List(<<"synonym">>)}

\* A truth value that takes every list, the empty one too, as true.
TruthyIfList(rt) == ~rt.none

\* Python truth value of rel_types (helpers.py 84, 112): None and the empty
\* list are false.
Truthy(rt) == ~rt.none /\ rt.list # <<>>

\* helpers.py 84-85 and 112-113: the predicate filter, applied when rel_types
\* is true.
PredicateFilter(t, rt) == Truthy(rt) => t.predicate \in Range(rt.list)

\* A row of relationship_tree.
TreeRow(id, level) ==
    [id |-> id, subject_id |-> Triplet[id].subject_id,
     predicate |-> Triplet[id].predicate, object_id |-> Triplet[id].object_id,
     level |-> level]

\* BaseWhere without the restriction to the start word.
BaseWhereAnyWord(t, wid) == TRUE

\* helpers.py 82: the base select's WHERE clause.
BaseWhere(t, wid) == t.subject_id = wid \/ t.object_id = wid

\* helpers.py 76-85: the base select, level 1.
BaseSelect(wid, rt) ==
    SetToBag({TreeRow(id, 1) : id \in
        {i \in 1..Len(Triplet) : BaseWhere(Triplet[i], wid) /\ PredicateFilter(Triplet[i], rt)}})

\* JoinOn along the direction of the edges only.
JoinOnDirected(t, row) == t.subject_id = row.object_id

\* helpers.py 100-108: the join condition between a triplet t and a CTE row.
JoinOn(t, row) ==
    \/ t.subject_id = row.object_id
    \/ t.subject_id = row.subject_id
    \/ t.object_id = row.object_id
    \/ t.object_id = row.subject_id

\* RecursiveWhere one level too deep (<= for <).
RecursiveWhereInclusive(row, d) == row.level <= d

\* RecursiveWhere without the bound on the level.
RecursiveWhereUnbounded(row, d) == TRUE

\* helpers.py 109: the recursive select's WHERE clause.
RecursiveWhere(row, d) == row.level < d

RECURSIVE SumOver(_, _)
\* The sum of a bag's counts over a set of its rows.
SumOver(S, b) ==
    IF S = {} THEN 0
    ELSE LET r == CHOOSE x \in S : TRUE IN b[r] + SumOver(S \ {r}, b)

\* RecursiveSelect without lines 112-113: the filter on the base select only.
RecursiveSelectUnfiltered(q, d, rt) ==
    LET parents(id) ==
            {row \in DOMAIN q : JoinOn(Triplet[id], row) /\ RecursiveWhere(row, d)}
        ids == {id \in 1..Len(Triplet) : parents(id) # {}}
        level(id) == (CHOOSE row \in parents(id) : TRUE).level + 1
        rows == {TreeRow(id, level(id)) : id \in ids}
    IN  [r \in rows |-> SumOver(parents(r.id), q)]

\* helpers.py 92-113: the recursive select run on the rows of the queue; a
\* triplet is produced once for every queue row it joins.
RecursiveSelect(q, d, rt) ==
    LET parents(id) ==
            {row \in DOMAIN q : /\ JoinOn(Triplet[id], row)
                                /\ RecursiveWhere(row, d)
                                /\ PredicateFilter(Triplet[id], rt)}
        ids == {id \in 1..Len(Triplet) : parents(id) # {}}
        level(id) == (CHOOSE row \in parents(id) : TRUE).level + 1
        rows == {TreeRow(id, level(id)) : id \in ids}
    IN  [r \in rows |-> SumOver(parents(r.id), q)]

\* helpers.py 121: the final select's join of Triplet with the CTE, one row
\* per CTE row, as a bag of Triplet ids.
JoinTree(tree) ==
    LET ids == {r.id : r \in DOMAIN tree}
    IN  [id \in ids |-> SumOver({r \in DOMAIN tree : r.id = id}, tree)]

\* The final select without DISTINCT.
NotDistinct(b) == b

\* helpers.py 122: DISTINCT.
Distinct(b) == [x \in DOMAIN b |-> 1]

RECURSIVE Copies(_, _)
Copies(x, n) == IF n = 0 THEN <<>> ELSE <<x>> \o Copies(x, n - 1)

\* helpers.py 123: ORDER BY Triplet.id.
OrderById(b) ==
    Flatten([id \in 1..Len(Triplet) |->
        IF id \in DOMAIN b THEN Copies(id, b[id]) ELSE <<>>])

\* helpers.py 119-126: the final query.
FinalQuery(tree) == OrderById(Distinct(JoinTree(tree)))

RECURSIVE RelationshipTree(_, _, _)
\* helpers.py 88-116: the rows of the recursive CTE from the queue q on.
RelationshipTree(q, d, rt) ==
    IF q = EmptyBag THEN EmptyBag
    ELSE q (+) RelationshipTree(RecursiveSelect(q, d, rt), d, rt)

\* helpers.py 69-126: what a call returns.
get_relationships_with_depth(wid, d, rt) ==
    FinalQuery(RelationshipTree(BaseSelect(wid, rt), d, rt))

\* The level of the rows in the queue (they all share it).
QueueLevel == (CHOOSE r \in DOMAIN queue : TRUE).level

\* A store after an import, and a call of get_relationships_with_depth on it.
InitQuery ==
    /\ ImporterIdle
    /\ PopulateIdle
    /\ jpc = "done"
    /\ source = <<>>
    /\ data = <<>>
    /\ triples = {}
    /\ Word = QueryWords
    /\ Example = <<>>
    /\ Triplet \in TripletTables
    /\ qpc = "base"
    /\ word_id \in StartChoices
    /\ depth \in 1..MaxDepth
    /\ rel_types \in RelTypeChoices
    /\ queue = EmptyBag
    /\ relationship_tree = EmptyBag
    /\ result = <<>>

\* The base select fills the queue.
QueryBase ==
    /\ qpc = "base"
    /\ queue' = BaseSelect(word_id, rel_types)
    /\ qpc' = "recursive"
    /\ UNCHANGED <<jvars, ivars, dvars, word_id, depth, rel_types, relationship_tree, result>>

\* The recursive part: the rows of the queue (one level) move to the CTE and
\* the recursive select is run on them; what it yields is the next queue.
\* No level beyond depth is ever in the queue; the guard bounds the levels.
QueryRecursive ==
    /\ qpc = "recursive"
    /\ queue # EmptyBag
    /\ QueueLevel <= MaxDepth + 1
    /\ relationship_tree' = relationship_tree (+) queue
    /\ queue' = RecursiveSelect(queue, depth, rel_types)
    /\ UNCHANGED <<jvars, ivars, dvars, qpc, word_id, depth, rel_types, result>>

\* The queue is empty: the final select returns.
QueryFinal ==
    /\ qpc = "recursive"
    /\ queue = EmptyBag
    /\ result' = FinalQuery(relationship_tree)
    /\ qpc' = "done"
    /\ UNCHANGED <<jvars, ivars, dvars, word_id, depth, rel_types, queue, relationship_tree>>

NextQuery == QueryBase \/ QueryRecursive \/ QueryFinal

SpecQuery == InitQuery /\ [][NextQuery]_vars

\* The database engine runs a query to its end.
FairSpecQuery == SpecQuery /\ WF_vars(NextQuery)


\* ------------------------------- claims on get_relationships_with_depth
RECURSIVE Within(_, _)
\* The words at undirected distance at most k from word_id, along the edges
\* the filter rt lets through.
Within(k, rt) ==
    IF k = 0 THEN {word_id}
    ELSE LET near == Within(k - 1, rt)
             edges == {i \in 1..Len(Triplet) :
                          /\ PredicateFilter(Triplet[i], rt)
                          /\ (Triplet[i].subject_id \in near \/ Triplet[i].object_id \in near)}
         IN  near \cup {Triplet[i].subject_id : i \in edges}
                  \cup {Triplet[i].object_id : i \in edges}

\* The edges the filter lets through with an endpoint within distance k.
EdgesWithin(k, rt) ==
    {i \in 1..Len(Triplet) :
        /\ PredicateFilter(Triplet[i], rt)
        /\ (Triplet[i].subject_id \in Within(k, rt) \/ Triplet[i].object_id \in Within(k, rt))}

\* C5: without a predicate filter the query returns exactly the edges with an
\* endpoint at undirected distance at most depth-1 from the start; on the
\* hand-built graph, depth 2 from A, exactly A-synonym-B and B-antonym-C.
C5_EdgesWithinDepth ==
    (qpc = "done" /\ rel_types = None) =>
        /\ Range(result) = EdgesWithin(depth - 1, None)
        /\ (Triplet = HandBuilt /\ word_id = 1 /\ depth = 2) => result = <<1, 2>>

\* C5 witness: the hand-built graph queried from A with depth 2 and no filter.
C5_Witness ==
    /\ qpc = "done" /\ rel_types = None
    /\ Triplet = HandBuilt /\ word_id = 1 /\ depth = 2
    /\ result = <<1, 2>>

C7_SortedDistinct ==
    qpc = "done" => \A i, j \in 1..Len(result) : i < j => result[i] < result[j]

\* C7 witness: a finished query in which an edge was reached several times
\* and an edge with a smaller id was first reached at a deeper level than one
\* with a larger id.
C7_Witness ==
    /\ qpc = "done"
    /\ \E a, b \in DOMAIN relationship_tree :
          /\ a.id < b.id
          /\ b.level = 1
          /\ \A c \in DOMAIN relationship_tree : c.id = a.id => c.level > 1
    /\ \E a \in DOMAIN JoinTree(relationship_tree) : JoinTree(relationship_tree)[a] > 1
    /\ Len(result) >= 2

\* A node lies on a cycle, a self-loop or a pair of parallel edges.
HasCycleOrParallel ==
    \/ \E i \in 1..Len(Triplet) : Triplet[i].subject_id = Triplet[i].object_id
    \/ \E i, j \in 1..Len(Triplet) :
          /\ i # j
          /\ {Triplet[i].subject_id, Triplet[i].object_id}
                = {Triplet[j].subject_id, Triplet[j].object_id}

\* C8: the query terminates on every finite triple graph, with cycles,
\* parallel edges and self-loops, for every depth >= 1 and every allow-list.
C8_Terminates == <>(qpc = "done")

\* C8 witness: a query of the largest depth that ended on a graph with a
\* cycle, a self-loop or parallel edges on which the recursion ran.
C8_Witness ==
    /\ qpc = "done"
    /\ depth = MaxDepth
    /\ HasCycleOrParallel
    /\ \E r \in DOMAIN relationship_tree : r.level = MaxDepth

\* The start id has no edge in the store (it is no Word, or a Word without
\* any edge).
StartWithoutEdge ==
    \A i \in 1..Len(Triplet) :
        Triplet[i].subject_id # word_id /\ Triplet[i].object_id # word_id

\* C9: a query whose start id is no Word of the store, or a Word without any
\* edge, ends with an empty list, for every depth and allow-list.
C9_UnknownStartEmpty ==
    /\ (qpc = "done" /\ StartWithoutEdge) => result = <<>>
    /\ (qpc = "recursive" /\ StartWithoutEdge) => queue = EmptyBag

\* C9 witness: a finished query from an id that is no Word, on a store that
\* holds edges.
C9_Witness ==
    /\ qpc = "done"
    /\ word_id \notin 1..Len(Word)
    /\ Triplet # <<>>
    /\ result = <<>>


\* ====================================================================
\* WiktionaryImporter (importer.py), driven by import_data (__main__.py
\* 36-63) inside Database.session (database.py 53-64)
\* ====================================================================

\* A sense of a source record, reduced to the fields the importer reads.
ImportSense(glosses, raw_glosses, examples, tags, synonyms, antonyms) ==
    [glosses |-> glosses, raw_glosses |-> raw_glosses, examples |-> examples,
     tags |-> tags, synonyms |-> synonyms, antonyms |-> antonyms]

\* A noun with a category, a topic, a form with a tag and a sense with
\* gloss, raw gloss, example, tag and two relations.
CatNoun ==
    [word |-> "cat", pos |-> "noun", etymology_number |-> 0,
     categories |-> <<"Animals">>, topics |-> <<"zoology">>,
     forms |-> << [form |-> "cats", tags |-> <<"plural">>] >>,
     senses |-> << ImportSense(<<"g1">>, <<"r1">>, <<"e1">>, <<"plural">>,
                               <<"kitty">>, <<"dog">>) >>]

\* A record with one gloss and no relation.
Kitty ==
    [word |-> "kitty", pos |-> "noun", etymology_number |-> 0,
     categories |-> <<"Animals">>, topics |-> <<>>, forms |-> <<>>,
     senses |-> << ImportSense(<<"g2">>, <<>>, <<>>, <<>>, <<>>, <<>>) >>]

\* A homonym (another part of speech) whose only sense has no gloss, a
\* synonym and a link of the category "related".
CatVerb ==
    [word |-> "cat", pos |-> "verb", etymology_number |-> 1,
     categories |-> <<>>, topics |-> <<>>, forms |-> <<>>,
     senses |-> << ImportSense(<<>>, <<>>, <<>>, <<>>, <<"kitty">>, <<>>)
                      @@ [related |-> <<"puss">>] >>]

\* A record without senses, with a category whose name is whitespace and a
\* topic whose name is empty.
Void ==
    [word |-> "void", pos |-> "noun", etymology_number |-> 0,
     categories |-> <<" ">>, topics |-> <<"">>, forms |-> <<>>,
     senses |-> <<>>]

\* A record with one gloss and a synonym listed on the entry itself.
CatEntry ==
    [word |-> "cat", pos |-> "noun", etymology_number |-> 0,
     categories |-> <<>>, topics |-> <<>>, forms |-> <<>>,
     senses |-> << ImportSense(<<"g3">>, <<>>, <<>>, <<>>, <<>>, <<>>) >>,
     synonyms |-> <<"kitty">>]

\* The records passed to import_word.
ImportEntries == {CatNoun, Kitty, CatVerb, Void, CatEntry}

\* importer.py 126-133: relation_types, in iteration order.
relation_types ==
    << <<"synonyms", "synonym">>, <<"antonyms", "antonym">>,
       <<"hypernyms", "hypernym">>, <<"hyponyms", "hyponym">>,
       <<"meronyms", "meronym">>, <<"holonyms", "holonym">> >>

\* importer.py 136: getattr(word_sense, attr, [])
SenseLinks(word_sense, attr) ==
    IF attr \in DOMAIN word_sense THEN word_sense[attr] ELSE <<>>

\* The importer's buffers and caches, as one value the processing of an
\* entry is folded over.
Importer ==
    [words |-> pending_words, senses |-> pending_senses,
     glosses |-> pending_glosses, examples |-> pending_examples,
     forms |-> pending_forms, relations |-> pending_relations,
     cache |-> cache, session_new |-> session_new]

\* importer.py 67-89: _get_category, _get_topic, _get_tag (kind names the
\* cache): a name not cached gets a new object, added to the session.
GetDimension(I, kind, name) ==
    IF name \in DOMAIN I.cache[kind] THEN I
    ELSE [I EXCEPT !.cache[kind] = @ @@ (name :> 0),
                   !.session_new = Append(@, <<kind, name>>)]

RECURSIVE GetDimensions(_, _, _)
GetDimensions(I, kind, names) ==
    IF names = <<>> THEN I
    ELSE GetDimensions(GetDimension(I, kind, Head(names)), kind, Tail(names))

\* importer.py 91-108: _process_word; the new word is the last of I.words.
ProcessWord(I, entry) ==
    LET I1 == GetDimensions(I, "category", entry.categories)
        I2 == GetDimensions(I1, "topic", entry.topics)
    IN  [I2 EXCEPT !.words = Append(@,
            [word |-> entry.word, pos |-> entry.pos,
             etymology_number |-> entry.etymology_number,
             categories |-> entry.categories, topics |-> entry.topics])]

RECURSIVE ProcessWordForms(_, _, _)
\* importer.py 110-122: _process_word_forms, for the word at index w of I.words.
ProcessWordForms(I, w, forms) ==
    IF forms = <<>> THEN I
    ELSE LET I1 == GetDimensions(I, "tag", Head(forms).tags)
             I2 == [I1 EXCEPT !.forms = Append(@,
                        [word |-> w, form |-> Head(forms).form, tags |-> Head(forms).tags])]
         IN  ProcessWordForms(I2, w, Tail(forms))

RECURSIVE ProcessLinks(_, _, _, _)
\* importer.py 137-159: the links of one relation list of the sense at index
\* sn of I.senses: a target word, a target sense and the relation.
ProcessLinks(I, sn, rel_type, links) ==
    IF links = <<>> THEN I
    ELSE LET I1 == [I EXCEPT !.words = Append(@,
                        [word |-> Head(links), pos |-> "unknown", etymology_number |-> 0,
                         categories |-> <<>>, topics |-> <<>>])]
             I2 == [I1 EXCEPT !.senses = Append(@, [word |-> Len(I1.words), tags |-> <<>>])]
             I3 == [I2 EXCEPT !.relations = Append(@,
                        [source |-> sn, target |-> Len(I2.senses), relation_type |-> rel_type])]
         IN  ProcessLinks(I3, sn, rel_type, Tail(links))

RECURSIVE ProcessSenseRelations(_, _, _, _)
\* importer.py 124-159: _process_sense_relations, from relation type k on.
ProcessSenseRelations(I, sn, word_sense, k) ==
    IF k > Len(relation_types) THEN I
    ELSE ProcessSenseRelations(
            ProcessLinks(I, sn, relation_types[k][2], SenseLinks(word_sense, relation_types[k][1])),
            sn, word_sense, k + 1)

\* importer.py 161-192: _process_sense for the word at index w of I.words.
ProcessSense(I, w, word_sense) ==
    LET I1 == [I EXCEPT !.senses = Append(@, [word |-> w, tags |-> word_sense.tags])]
        sn == Len(I1.senses)
        I2 == [I1 EXCEPT
                !.glosses = @ \o [i \in 1..Len(word_sense.glosses) |->
                                    [sense |-> sn, text |-> word_sense.glosses[i], is_raw |-> FALSE]]
                              \o [i \in 1..Len(word_sense.raw_glosses) |->
                                    [sense |-> sn, text |-> word_sense.raw_glosses[i], is_raw |-> TRUE]],
                !.examples = @ \o [i \in 1..Len(word_sense.examples) |->
                                    [sense |-> sn, text |-> word_sense.examples[i]]]]
        I3 == GetDimensions(I2, "tag", word_sense.tags)
    IN  ProcessSenseRelations(I3, sn, word_sense, 1)

RECURSIVE ProcessSenses(_, _, _)
\* importer.py 203-204
ProcessSenses(I, w, senses) ==
    IF senses = <<>> THEN I
    ELSE ProcessSenses(ProcessSense(I, w, Head(senses)), w, Tail(senses))

\* importer.py 196-204: what import_word adds to the buffers and caches.
ProcessEntry(I, entry) ==
    LET I1 == ProcessWord(I, entry)
        w == Len(I1.words)
        I2 == ProcessWordForms(I1, w, entry.forms)
    IN  ProcessSenses(I2, w, entry.senses)

\* importer.py 214-224: nothing is pending.
NothingPending(I) ==
    /\ I.words = <<>> /\ I.senses = <<>> /\ I.glosses = <<>>
    /\ I.examples = <<>> /\ I.forms = <<>> /\ I.relations = <<>>

\* The writes of flush_batch that can fail, in order (importer.py 230, 240,
\* 264, 265, 266, 267, 270).
WritePoints ==
    <<"words", "senses", "glosses", "examples", "forms", "relations", "commit">>

\* The number of objects of a kind among the first n of session_new.
RECURSIVE CountKind(_, _, _)
CountKind(new, kind, n) ==
    IF n = 0 THEN 0
    ELSE CountKind(new, kind, n - 1) + (IF new[n][1] = kind THEN 1 ELSE 0)

\* The caches once the session has flushed its new objects into tables t:
\* every new object has the id of its row.
FlushedCache(t, I) ==
    [kind \in DOMAIN I.cache |->
        [name \in DOMAIN I.cache[kind] |->
            IF \E n \in 1..Len(I.session_new) : I.session_new[n] = <<kind, name>>
            THEN LET n == CHOOSE m \in 1..Len(I.session_new) : I.session_new[m] = <<kind, name>>
                 IN  Len(t[kind]) + CountKind(I.session_new, kind, n)
            ELSE I.cache[kind][name]]]

\* The rows the session's new objects of a kind become.
DimensionRows(I, kind) ==
    LET mine == SelectSeq(I.session_new, LAMBDA o : o[1] = kind)
    IN  [i \in 1..Len(mine) |-> [name |-> mine[i][2]]]

\* The id the flush gives to the pending word (sense) at index i: the next
\* free ids of the table, in the order of the buffer.
WordIdInBatch(t, i) == i
WordId(t, i) == Len(t.words) + i
SenseId(t, i) == Len(t.senses) + i

\* importer.py 228-230: the first session.flush(): the new categories,
\* topics and tags, then the pending words with their associations.
WriteWords(t, I) ==
    LET c == FlushedCache(t, I)
    IN  [t EXCEPT
            !.category = @ \o DimensionRows(I, "category"),
            !.topic = @ \o DimensionRows(I, "topic"),
            !.tag = @ \o DimensionRows(I, "tag"),
            !.words = @ \o [i \in 1..Len(I.words) |->
                [word |-> I.words[i].word, pos |-> I.words[i].pos,
                 etymology_number |-> I.words[i].etymology_number,
                 categories |-> [k \in 1..Len(I.words[i].categories) |->
                                    c.category[I.words[i].categories[k]]],
                 topics |-> [k \in 1..Len(I.words[i].topics) |->
                                    c.topic[I.words[i].topics[k]]]]]]

\* importer.py 233-240: word ids set on the senses, second session.flush().
\* t0 is the state of the tables before the flush began.
WriteSenses(t, t0, I) ==
    LET c == FlushedCache(t0, I)
    IN  [t EXCEPT !.senses = @ \o [i \in 1..Len(I.senses) |->
            [word_id |-> WordId(t0, I.senses[i].word),
             tags |-> [k \in 1..Len(I.senses[i].tags) |-> c.tag[I.senses[i].tags[k]]]]]]

\* importer.py 243-245, 264
WriteGlosses(t, t0, I) ==
    [t EXCEPT !.glosses = @ \o [i \in 1..Len(I.glosses) |->
        [sense_id |-> SenseId(t0, I.glosses[i].sense),
         text |-> I.glosses[i].text, is_raw |-> I.glosses[i].is_raw]]]

\* importer.py 247-249, 265
WriteExamples(t, t0, I) ==
    [t EXCEPT !.examples = @ \o [i \in 1..Len(I.examples) |->
        [sense_id |-> SenseId(t0, I.examples[i].sense), text |-> I.examples[i].text]]]

\* importer.py 252-254, 266: bulk_save_objects writes the rows of the forms,
\* not their tags relationship.
WriteForms(t, t0, I) ==
    [t EXCEPT !.forms = @ \o [i \in 1..Len(I.forms) |->
        [word_id |-> WordId(t0, I.forms[i].word), form |-> I.forms[i].form]]]

\* importer.py 257-261, 267
WriteRelations(t, t0, I) ==
    [t EXCEPT !.relations = @ \o [i \in 1..Len(I.relations) |->
        [source_id |-> SenseId(t0, I.relations[i].source),
         target_id |-> SenseId(t0, I.relations[i].target),
         relation_type |-> I.relations[i].relation_type]]]

\* importer.py 226-267: the tables after the first n writes of a flush.
FlushWrites(t, I, n) ==
    LET t1 == IF n >= 1 THEN WriteWords(t, I) ELSE t
        t2 == IF n >= 2 THEN WriteSenses(t1, t, I) ELSE t1
        t3 == IF n >= 3 THEN WriteGlosses(t2, t, I) ELSE t2
        t4 == IF n >= 4 THEN WriteExamples(t3, t, I) ELSE t3
        t5 == IF n >= 5 THEN WriteForms(t4, t, I) ELSE t4
    IN  IF n >= 6 THEN WriteRelations(t5, t, I) ELSE t5

ClearPendingButWords ==
    /\ pending_words' = pending_words
    /\ pending_senses' = <<>>
    /\ pending_glosses' = <<>>
    /\ pending_examples' = <<>>
    /\ pending_forms' = <<>>
    /\ pending_relations' = <<>>

\* importer.py 273-279: the finally clause.
ClearPending ==
    /\ pending_words' = <<>>
    /\ pending_senses' = <<>>
    /\ pending_glosses' = <<>>
    /\ pending_examples' = <<>>
    /\ pending_forms' = <<>>
    /\ pending_relations' = <<>>

\* The buffers and caches are left as the processing of an entry made them.
KeepPending(I) ==
    /\ pending_words' = I.words
    /\ pending_senses' = I.senses
    /\ pending_glosses' = I.glosses
    /\ pending_examples' = I.examples
    /\ pending_forms' = I.forms
    /\ pending_relations' = I.relations
    /\ cache' = I.cache
    /\ session_new' = I.session_new

\* importer.py 212-279: flush_batch on importer state I; fail = 0 when every
\* write succeeds, else the index in WritePoints of the write that raises.
\* The exception is caught nowhere in the importer: it leaves the caller's
\* with block.
FlushBatch(I, fail) ==
    IF NothingPending(I)
    THEN /\ fail = 0
         /\ KeepPending(I)
         /\ UNCHANGED <<tx, db, last_commit, raised, ipc>>
    ELSE /\ ClearPending
         /\ IF fail = 0
            THEN /\ tx' = FlushWrites(tx, I, 6)
                 /\ db' = tx'
                 /\ last_commit' = tx'
                 /\ cache' = FlushedCache(tx, I)
                 /\ session_new' = <<>>
                 /\ UNCHANGED <<raised, ipc>>
            ELSE /\ tx' = FlushWrites(tx, I, fail - 1)
                 /\ cache' = IF fail > 1 THEN FlushedCache(tx, I) ELSE I.cache
                 /\ session_new' = IF fail > 1 THEN <<>> ELSE I.session_new
                 /\ raised' = WritePoints[fail]
                 /\ ipc' = "raising"
                 /\ UNCHANGED <<db, last_commit>>

\* __main__.py 39-48: the session is opened on the store of the source file
\* and the importer is built; its caches are preloaded from the (empty) store.
InitImport ==
    /\ QueryIdle
    /\ PopulateIdle
    /\ jpc = "load" /\ source = <<>> /\ data = <<>> /\ triples = {}
    /\ Word = <<>> /\ Example = <<>> /\ Triplet = <<>>
    /\ ipc = "open"
    /\ batch_size \in 1..(MaxStream + 1)
    /\ entries_processed = 0
    /\ pending_words = <<>>
    /\ pending_senses = <<>>
    /\ pending_glosses = <<>>
    /\ pending_examples = <<>>
    /\ pending_forms = <<>>
    /\ pending_relations = <<>>
    /\ cache = EmptyCache
    /\ session_new = <<>>
    /\ tx = EmptyTables
    /\ db = EmptyTables
    /\ stream = <<>>
    /\ finalized = FALSE
    /\ raised = NoException
    /\ calls = <<>>
    /\ file = SourceFile
    /\ prior = NoPrior
    /\ reference = NewImporter
    /\ last_commit = EmptyTables

\* A flush as soon as batch_size entries were processed, and at every entry
\* from then on.
BatchReached(n, size) == n >= size

\* importer.py 209: the batch is full.
BatchFull(n, size) == n % size = 0

\* importer.py 194-210: import_word(entry).  Nothing in the importer records
\* that finalize() was called, so the call is served after it as before it.
ImportWord ==
    /\ ipc = "open"
    /\ Len(stream) < MaxStream
    /\ \E entry \in ImportEntries, fail \in 0..Len(WritePoints) :
        LET I == ProcessEntry(Importer, entry)
        IN  /\ stream' = Append(stream, entry)
            /\ calls' = Append(calls, [op |-> "import_word", raised |-> fail # 0])
            /\ reference' = ProcessEntry(reference, entry)
            /\ entries_processed' = entries_processed + 1
            /\ IF BatchFull(entries_processed', batch_size)
               THEN FlushBatch(I, fail)
               ELSE /\ fail = 0
                    /\ KeepPending(I)
                    /\ UNCHANGED <<tx, db, last_commit, raised, ipc>>
    /\ UNCHANGED <<jvars, qvars, dvars, rvars, batch_size, finalized>>

\* importer.py 281-283: finalize(), called by import_data at the end of the
\* stream (__main__.py 60).
Finalize ==
    /\ ipc = "open"
    /\ ~finalized
    /\ \E fail \in 0..Len(WritePoints) :
        /\ FlushBatch(Importer, fail)
        /\ finalized' = (fail = 0)
        /\ calls' = Append(calls, [op |-> "finalize", raised |-> fail # 0])
    /\ UNCHANGED <<jvars, qvars, dvars, rvars, batch_size, entries_processed, stream, reference>>

SessionOnExceptionCommits(t, d) == t

\* database.py 60-62: the with block is left by an exception: rollback.
\* t is the open transaction, d the committed store.
SessionOnException(t, d) == d

\* database.py 59: the with block is left normally: commit, which flushes the
\* objects added to the session.
SessionOnSuccess(t, new) ==
    [t EXCEPT !.category = @ \o DimensionRows([session_new |-> new], "category"),
              !.topic = @ \o DimensionRows([session_new |-> new], "topic"),
              !.tag = @ \o DimensionRows([session_new |-> new], "tag")]

\* database.py 53-64: Database.session leaves the with block of import_data.
SessionExit ==
    /\ \/ /\ ipc = "raising"
          /\ db' = SessionOnException(tx, db)
          /\ tx' = db'
          /\ ipc' = "aborted"
          /\ UNCHANGED <<cache, session_new, last_commit>>
       \/ /\ ipc = "open"
          /\ finalized
          /\ db' = SessionOnSuccess(tx, session_new)
          /\ tx' = db'
          /\ last_commit' = db'
          /\ cache' = FlushedCache(tx, Importer)
          /\ session_new' = <<>>
          /\ ipc' = "closed"
    /\ UNCHANGED <<jvars, qvars, dvars, rvars, batch_size, entries_processed, pvars, stream,
                   finalized, raised, calls, reference>>

NextImport == ImportWord \/ Finalize \/ SessionExit

SpecImport == InitImport /\ [][NextImport]_vars


\* --------------------------------------------------------------------
\* Claims on the importer
\* --------------------------------------------------------------------

\* __main__.py 47-61 with a batch size larger than the stream: every entry
\* is buffered, in I, and finalize() writes them in one flush.
ImportAtOnce(I) ==
    IF NothingPending(I) THEN EmptyTables ELSE FlushWrites(EmptyTables, I, 6)

\* The Word, Sense and Relation rows of a store; the id of a row is its
\* position in its table.
RowSets(t) == [words |-> t.words, senses |-> t.senses, relations |-> t.relations]

\* The calls follow import_data: import_word on every entry of the stream,
\* then finalize().
ImportDataCalls ==
    /\ Len(calls) = Len(stream) + 1
    /\ \A i \in 1..Len(stream) : calls[i].op = "import_word"
    /\ calls[Len(calls)].op = "finalize"

\* C3: flush_batch is all-or-nothing.  Once a write of a flush has raised,
\* the exception has left import_word/finalize (it is the last call's
\* outcome and no call follows it), the buffers are cleared, the committed
\* store is the store of the previous commit, and after the session has
\* rolled back nothing of the failed flush is left in the transaction.
C3_FlushAllOrNothing ==
    (ipc \in {"raising", "aborted"}) =>
        /\ raised \in Range(WritePoints)
        /\ calls[Len(calls)].raised
        /\ \A i \in 1..(Len(calls) - 1) : ~calls[i].raised
        /\ NothingPending(Importer)
        /\ db = last_commit
        /\ (ipc = "aborted" => tx = last_commit)

\* A flush failed at its last bulk save, after words, senses, glosses,
\* examples and forms of the batch were written, an earlier batch having
\* been committed; the session has rolled back.
C3_Witness ==
    /\ ipc = "aborted"
    /\ raised = "relations"
    /\ db.words # <<>>
    /\ Len(stream) >= 2

\* C4: with no failing flush, a stream imported with batch size 1 and the
\* same stream imported with a batch size larger than the stream end with
\* the same Word, Sense and Relation rows, ids included.
C4_BatchSizeIndependent ==
    (ipc = "closed" /\ ImportDataCalls /\ (batch_size = 1 \/ batch_size > Len(stream))) =>
        RowSets(db) = RowSets(ImportAtOnce(reference))

\* A stream of two entries or more, one of them with relations, was
\* imported with batch size 1.
C4_Witness ==
    /\ ipc = "closed"
    /\ ImportDataCalls
    /\ batch_size = 1
    /\ Len(stream) >= 2
    /\ db.relations # <<>>
    /\ \E i \in 2..Len(db.senses) : db.senses[i].word_id > 1

\* C10: after finalize() has returned, a call of import_word is rejected
\* with an error and adds nothing to the pending buffers or to the store.
C10_ImportAfterFinalizeRejected ==
    [][(finalized /\ Len(calls') > Len(calls) /\ calls'[Len(calls')].op = "import_word") =>
            /\ calls'[Len(calls')].raised
            /\ pvars' = pvars
            /\ db' = db]_vars

\* The rows of the words table that came from the entries themselves, not
\* from the targets of their relations (importer.py 139-144: pos "unknown").
EntryWordRows(t) == SelectSeq(t.words, LAMBDA w : w.pos # "unknown")

\* C11: after import_word on every entry of the stream and then finalize(),
\* no flush having failed, the six pending buffers are empty and the store
\* holds every entry exactly once: one row per entry, in stream order, and
\* all tables as one flush of the whole stream writes them.
C11_FinalizeCommitsEachEntryOnce ==
    (finalized /\ ImportDataCalls /\ raised = NoException) =>
        /\ NothingPending(Importer)
        /\ Len(EntryWordRows(db)) = Len(stream)
        /\ \A i \in 1..Len(stream) :
            /\ EntryWordRows(db)[i].word = stream[i].word
            /\ EntryWordRows(db)[i].pos = stream[i].pos
        /\ db = ImportAtOnce(reference)

\* Three entries were imported with batch size 2: one flush happened in
\* import_word, and finalize() flushed the last, incomplete batch.
C11_Witness ==
    /\ finalized
    /\ ImportDataCalls
    /\ raised = NoException
    /\ batch_size = 2
    /\ Len(stream) = 3
    /\ Len(db.words) >= 3


\* ====================================================================
\* A second run of import_data (__main__.py 36-63) after an earlier one
\* ====================================================================

\* database.py 13-19: generate_fingerprint: the file's name, its size and
\* int(st_mtime); the md5 digest of the formatted text stands as the text.
generate_fingerprint(f) == <<f.name, f.size, f.mtime \div 10>>

\* The file of the second run: the file of the first run unchanged, touched
\* within the same second, or touched later.
RerunFiles == {[SourceFile EXCEPT !.mtime = t] : t \in {10, 15, 20}}

\* database.py 27-32, 39-45 and __main__.py 40-44: the store at the path of
\* the file's fingerprint; create_all leaves an existing store as it is.
OpenStore(f, p) ==
    IF generate_fingerprint(f) = generate_fingerprint(p.file) THEN p.db ELSE EmptyTables

PreloadNothing(t) == EmptyCache

\* importer.py 53-65: _preload_caches: each name of the store's Category,
\* Topic and Tag rows, with the id of its row (the last one, if several).
PreloadCaches(t) ==
    [kind \in {"category", "topic", "tag"} |->
        [name \in {t[kind][i].name : i \in 1..Len(t[kind])} |->
            CHOOSE i \in 1..Len(t[kind]) :
                /\ t[kind][i].name = name
                /\ \A j \in (i + 1)..Len(t[kind]) : t[kind][j].name # name]]

RECURSIVE ProcessEntries(_, _)
\* __main__.py 53-54: import_word on every entry.
ProcessEntries(I, entries) ==
    IF entries = <<>> THEN I
    ELSE ProcessEntries(ProcessEntry(I, Head(entries)), Tail(entries))

\* The streams of the earlier run.
PriorStreams == {<<CatNoun>>, <<CatEntry, Kitty>>}

\* The earlier run: import_data on SourceFile, on a new store, no flush
\* failing.
PriorRuns ==
    {[file |-> SourceFile, stream |-> st,
      db |-> ImportAtOnce(ProcessEntries(NewImporter, st))] : st \in PriorStreams}

\* __main__.py 36-48: import_data is run again; the importer preloads its
\* caches from the store it is given.
InitRerun ==
    /\ QueryIdle
    /\ PopulateIdle
    /\ jpc = "load" /\ source = <<>> /\ data = <<>> /\ triples = {}
    /\ Word = <<>> /\ Example = <<>> /\ Triplet = <<>>
    /\ ipc = "open"
    /\ batch_size \in {1, MaxStream}
    /\ entries_processed = 0
    /\ pending_words = <<>>
    /\ pending_senses = <<>>
    /\ pending_glosses = <<>>
    /\ pending_examples = <<>>
    /\ pending_forms = <<>>
    /\ pending_relations = <<>>
    /\ prior \in PriorRuns
    /\ file \in RerunFiles
    /\ db = OpenStore(file, prior)
    /\ tx = db
    /\ last_commit = db
    /\ cache = PreloadCaches(db)
    /\ session_new = <<>>
    /\ stream = <<>>
    /\ finalized = FALSE
    /\ raised = NoException
    /\ calls = <<>>
    /\ reference = NewImporter

SpecRerun == InitRerun /\ [][NextImport]_vars

\* No two rows of a dimension table have the same name.
UniqueNames(table) ==
    \A i, j \in 1..Len(table) : table[i].name = table[j].name => i = j

\* Every dimension id a word or sense row of the store holds is the id of a
\* row of the store.
DimensionsPresent(t) ==
    /\ \A i \in 1..Len(t.words) :
        /\ Range(t.words[i].categories) \subseteq 1..Len(t.category)
        /\ Range(t.words[i].topics) \subseteq 1..Len(t.topic)
    /\ \A i \in 1..Len(t.senses) : Range(t.senses[i].tags) \subseteq 1..Len(t.tag)

\* C12: in one store, whatever was imported by this run and by an earlier
\* run over the same store, there is at most one Category, one Topic and
\* one Tag row per name; while the run goes on, every name the cache holds
\* with an id is the name of the row of that id; and every dimension a
\* committed word or sense references is a row of the committed store.
C12_DimensionsUnique ==
    /\ \A kind \in {"category", "topic", "tag"} :
        /\ UniqueNames(db[kind])
        /\ UniqueNames(tx[kind])
        /\ ipc \in {"open", "closed"} =>
            \A name \in DOMAIN cache[kind] :
                cache[kind][name] # 0 =>
                    /\ cache[kind][name] \in 1..Len(tx[kind])
                    /\ tx[kind][cache[kind][name]].name = name
    /\ DimensionsPresent(db)

\* The second run, over the store the first run left, has committed a word
\* of a category the first run created, and a tag the first run did not.
C12_Witness ==
    /\ ipc = "closed"
    /\ prior.db.category # <<>>
    /\ Len(db.category) = Len(prior.db.category)
    /\ Len(db.words) > Len(prior.db.words)
    /\ \E i \in (Len(prior.db.words) + 1)..Len(db.words) : db.words[i].categories # <<>>
    /\ Len(db.tag) > Len(prior.db.tag)

\* C13: a second import_data on the unchanged source file imports nothing
\* again: the store of the file's fingerprint is reused and holds, after the
\* second run, the rows it held after the first.
C13_SecondImportIsNoOp ==
    (ipc = "closed" /\ file = prior.file /\ stream = prior.stream /\ ImportDataCalls) =>
        db = prior.db


\* ====================================================================
\* populate_database (populate_db.py 436-511)
\* ====================================================================

MaxLines == 3

\* populate_db.py 492: a commit every 1000 processed entries.
CommitEvery == 1000

\* dict.get(key, default)
Get(d, key, default) == IF key \in DOMAIN d THEN d[key] ELSE default

\* The lines of the input file, as json.loads takes them: text that is not
\* JSON; JSON that is no object; an object without lang and lang_code; a
\* record whose only sense has no gloss; a record with a gloss, a synonym on
\* its sense and a synonym on the entry; a record with a gloss and no
\* relation; a record of the same word as the last, as a verb.
GarbageLine == [json |-> FALSE]
ScalarLine == [json |-> TRUE, object |-> FALSE]
NoLangLine == [json |-> TRUE, object |-> TRUE, data |-> [word |-> "cat"]]
NoGlossLine ==
    [json |-> TRUE, object |-> TRUE,
     data |-> [word |-> "dog", lang |-> "English", lang_code |-> "en", pos |-> "noun",
               senses |-> << [tags |-> <<"rare">>] >>]]
CatLine ==
    [json |-> TRUE, object |-> TRUE,
     data |-> [word |-> "cat", lang |-> "English", lang_code |-> "en", pos |-> "noun",
               senses |-> << [glosses |-> <<"g1">>, synonyms |-> << [word |-> "puss"] >>] >>,
               synonyms |-> << [word |-> "kitty"] >>]]
KittyLine ==
    [json |-> TRUE, object |-> TRUE,
     data |-> [word |-> "kitty", lang |-> "English", lang_code |-> "en", pos |-> "noun",
               senses |-> << [glosses |-> <<"g2">>] >>]]

KittyVerbLine ==
    [json |-> TRUE, object |-> TRUE,
     data |-> [word |-> "kitty", lang |-> "English", lang_code |-> "en", pos |-> "verb",
               etymology_number |-> 2,
               senses |-> << [glosses |-> <<"g4">>] >>]]

InputLines ==
    {GarbageLine, ScalarLine, NoLangLine, NoGlossLine, CatLine, KittyLine, KittyVerbLine}

\* populate_db.py 102-161: the senses that have a gloss; the definition is
\* the glosses joined, kept here as their sequence.
RECURSIVE ValidSenses(_)
ValidSenses(senses) ==
    IF senses = <<>> THEN <<>>
    ELSE IF Get(Head(senses), "glosses", <<>>) = <<>>
         THEN ValidSenses(Tail(senses))
         ELSE <<[definition |-> Head(senses).glosses]>> \o ValidSenses(Tail(senses))

\* populate_db.py 220-230: the linkage types read from the entry, in order.
linkage_types ==
    <<"synonyms", "antonyms", "hypernyms", "hyponyms", "holonyms", "meronyms",
      "derived", "related", "coordinate_terms">>

\* populate_db.py 231-245: the linkages of one type that name a word.
RECURSIVE TypeLinkages(_, _)
TypeLinkages(type, links) ==
    IF links = <<>> THEN <<>>
    ELSE IF Get(Head(links), "word", "") = ""
         THEN TypeLinkages(type, Tail(links))
         ELSE <<[type |-> type, word |-> Head(links).word]>> \o TypeLinkages(type, Tail(links))

\* populate_db.py 218-246: the linkages of the entry, from type k on.
RECURSIVE Linkages(_, _)
Linkages(rec, k) ==
    IF k > Len(linkage_types) THEN <<>>
    ELSE TypeLinkages(linkage_types[k], Get(rec, linkage_types[k], <<>>)) \o Linkages(rec, k + 1)

\* populate_db.py 69-248: validate_entry: the cleaned entry, or None
\* (valid FALSE) for a record without a required field or without a sense
\* that has a gloss.
validate_entry(rec) ==
    IF ~({"word", "lang", "lang_code"} \subseteq DOMAIN rec) THEN [valid |-> FALSE]
    ELSE IF ValidSenses(Get(rec, "senses", <<>>)) = <<>> THEN [valid |-> FALSE]
    ELSE [valid |-> TRUE,
          title |-> rec.word, language |-> rec.lang, lang_code |-> rec.lang_code,
          part_of_speech |-> Get(rec, "pos", "None"),
          senses |-> ValidSenses(Get(rec, "senses", <<>>)),
          linkages |-> Linkages(rec, 1)]


\* models.py 52-54: the unique constraint of entries.
EntryKey(e) == <<e.title, e.language, e.lang_code>>

HasKey(store, key) ==
    \E i \in 1..Len(store.entries) : EntryKey(store.entries[i]) = key

\* populate_db.py 356-364: query(Entry).filter_by(...).first(), as an id.
FirstWithKey(store, key) ==
    CHOOSE i \in 1..Len(store.entries) :
        /\ EntryKey(store.entries[i]) = key
        /\ \A j \in 1..(i - 1) : EntryKey(store.entries[j]) # key

\* populate_db.py 255-314: the Entry built from the cleaned data.
EntryRow(cleaned) ==
    [title |-> cleaned.title, language |-> cleaned.language, lang_code |-> cleaned.lang_code,
     part_of_speech |-> cleaned.part_of_speech, senses |-> cleaned.senses]

\* populate_db.py 368-373: the placeholder Entry of a linkage's target.
Placeholder(word, cleaned) ==
    [title |-> word, language |-> cleaned.language, lang_code |-> cleaned.lang_code,
     part_of_speech |-> "None", senses |-> <<>>]

\* The INSERTs of a flush, in order; one that breaks the unique constraint
\* raises IntegrityError (ok FALSE).
RECURSIVE InsertNew(_, _)
InsertNew(store, new) ==
    IF new = <<>> THEN [ok |-> TRUE, store |-> store]
    ELSE IF HasKey(store, EntryKey(Head(new))) THEN [ok |-> FALSE, store |-> store]
    ELSE InsertNew([store EXCEPT !.entries = Append(@, Head(new))], Tail(new))

\* session.flush(), also run by a query (the Session autoflushes).
Flush(S) ==
    LET r == InsertNew(S.tx, S.new)
    IN  [ok |-> r.ok, S |-> [tx |-> r.store, new |-> <<>>]]

\* session.rollback(): back to the committed store out.
Rollback(out) == [tx |-> out, new |-> <<>>]

\* populate_db.py 354-391: the linkages of the entry; eid is the id of the
\* entry once a flush has inserted it (it enters the session with its first
\* linkage), 0 before.
RECURSIVE AddLinkages(_, _, _, _)
AddLinkages(S, eid, cleaned, links) ==
    IF links = <<>> THEN [ok |-> TRUE, S |-> S, eid |-> eid]
    ELSE LET f == Flush(S)
             key == <<Head(links).word, cleaned.language, cleaned.lang_code>>
             t1 == IF HasKey(f.S.tx, key) THEN f.S.tx
                   ELSE [f.S.tx EXCEPT !.entries = Append(@, Placeholder(Head(links).word, cleaned))]
             tid == FirstWithKey(t1, key)
             t2 == IF eid = 0 THEN [t1 EXCEPT !.entries = Append(@, EntryRow(cleaned))] ELSE t1
             sid == IF eid = 0 THEN Len(t2.entries) ELSE eid
             t3 == [t2 EXCEPT !.linkages = Append(@,
                        [source |-> sid, target |-> tid, linkage_type |-> Head(links).type])]
         IN  IF ~f.ok \/ (eid = 0 /\ HasKey(t1, EntryKey(EntryRow(cleaned))))
             THEN [ok |-> FALSE, S |-> S, eid |-> eid]
             ELSE AddLinkages([tx |-> t3, new |-> <<>>], sid, cleaned, Tail(links))

\* populate_db.py 251-433: create_db_entry.  result is "entry" (an Entry is
\* returned), "none" (None is returned) or "raise": after an IntegrityError
\* the session is rolled back to the committed store out; if out holds an
\* entry of the same key, assigning the cleaned senses (dicts) to it raises
\* inside the handler (423-425).
create_db_entry(S, out, cleaned) ==
    LET r == AddLinkages(S, 0, cleaned, cleaned.linkages)
    IN  IF r.ok
        THEN [result |-> "entry",
              S |-> IF r.eid = 0 THEN [r.S EXCEPT !.new = Append(@, EntryRow(cleaned))] ELSE r.S]
        ELSE [result |-> IF HasKey(out, EntryKey(EntryRow(cleaned))) THEN "raise" ELSE "none",
              S |-> Rollback(out)]

UnlinkNothing(store) == store

\* populate_db.py 447: output_path.unlink()
Unlink(store) == NoStore

\* populate_db.py 455-456: create_engine and create_all: the file and its
\* tables exist afterwards; existing tables are left as they are.
CreateAll(store) == IF store.exists THEN store ELSE EmptyStore

\* A database file an earlier run left at output_path.
OldStore ==
    [exists |-> TRUE,
     entries |-> << [title |-> "kitty", language |-> "English", lang_code |-> "en",
                     part_of_speech |-> "old", senses |-> <<[definition |-> <<"g0">>]>>] >>,
     linkages |-> <<>>]

\* The numbers of lines read before the lines the model follows: valid
\* records of other titles, without linkages (their rows are left out of
\* the tables).
Prefixes == {0, CommitEvery - 2}

InitPopulate ==
    /\ QueryIdle
    /\ ImporterIdle
    /\ jpc = "load" /\ source = <<>> /\ data = <<>> /\ triples = {}
    /\ Word = <<>> /\ Example = <<>> /\ Triplet = <<>>
    /\ dpc = "start"
    /\ force \in BOOLEAN
    /\ output \in {NoStore, OldStore}
    /\ old_output = output
    /\ session = [tx |-> NoStore, new |-> <<>>]
    /\ lines = <<>>
    /\ line_num = 0
    /\ processed = 0
    /\ skipped = 0

\* populate_db.py 444-473: the check of output_path, the new database, and
\* the lines read before those the model follows.
PopulateStart ==
    /\ dpc = "start"
    /\ IF output.exists /\ ~force
       THEN /\ dpc' = "exists"
            /\ UNCHANGED <<output, session, line_num, processed>>
       ELSE /\ dpc' = "loop"
            /\ output' = CreateAll(IF output.exists THEN Unlink(output) ELSE output)
            /\ session' = [tx |-> output', new |-> <<>>]
            /\ \E n \in Prefixes : line_num' = n /\ processed' = n
    /\ UNCHANGED <<jvars, qvars, ivars, force, old_output, lines, skipped>>

\* populate_db.py 473-504: one line of the input file.
PopulateLine ==
    /\ dpc = "loop"
    /\ Len(lines) < MaxLines
    /\ \E line \in InputLines :
        LET v == IF line.json /\ line.object THEN validate_entry(line.data) ELSE [valid |-> FALSE]
            c == IF v.valid THEN create_db_entry(session, output, v)
                 ELSE [result |-> "none", S |-> session]
            p1 == processed + (IF v.valid /\ c.result = "entry" THEN 1 ELSE 0)
            s1 == skipped + (IF v.valid /\ c.result = "none" THEN 1 ELSE 0)
            f == Flush(c.S)
        IN  /\ lines' = Append(lines, line)
            /\ line_num' = line_num + 1
            /\ processed' = p1
            /\ CASE ~line.json ->
                       skipped' = skipped + 1 /\ UNCHANGED <<session, output>>
                 [] line.json /\ ~line.object ->
                       skipped' = skipped + 1 /\ session' = Rollback(output) /\ UNCHANGED output
                 [] line.json /\ line.object /\ ~v.valid ->
                       skipped' = skipped + 1 /\ UNCHANGED <<session, output>>
                 [] v.valid /\ c.result = "raise" ->
                       skipped' = skipped + 1 /\ session' = c.S /\ UNCHANGED output
                 [] v.valid /\ c.result # "raise" /\ p1 % CommitEvery = 0 /\ f.ok ->
                       skipped' = s1 /\ session' = f.S /\ output' = f.S.tx
                 [] v.valid /\ c.result # "raise" /\ p1 % CommitEvery = 0 /\ ~f.ok ->
                       skipped' = s1 + 1 /\ session' = Rollback(output) /\ UNCHANGED output
                 [] OTHER ->
                       skipped' = s1 /\ session' = c.S /\ UNCHANGED output
    /\ UNCHANGED <<jvars, qvars, ivars, dpc, force, old_output>>

\* populate_db.py 506-507: the final commit, outside the try of the loop: an
\* IntegrityError leaves populate_database, and the with block closes the
\* session.
PopulateFinalCommit ==
    /\ dpc = "loop"
    /\ LET f == Flush(session)
       IN  IF f.ok
           THEN /\ dpc' = "done" /\ output' = f.S.tx /\ session' = f.S
           ELSE /\ dpc' = "failed" /\ session' = Rollback(output) /\ UNCHANGED output
    /\ UNCHANGED <<jvars, qvars, ivars, force, old_output, lines, line_num, processed, skipped>>

NextPopulate == PopulateStart \/ PopulateLine \/ PopulateFinalCommit

SpecPopulate == InitPopulate /\ [][NextPopulate]_vars


\* The rows of an earlier database file are those of part of speech "old".
OldRows(store) ==
    IF store.exists
    THEN {i \in 1..Len(store.entries) : store.entries[i].part_of_speech = "old"}
    ELSE {}

\* C14: when output_path exists and force is not set, populate_database
\* raises FileExistsError and the file stays as it was, and the error is
\* raised in no other case; with force, once the run is past the check no
\* row of the old file is in the database or in the session's transaction.
C14_ExistingOutput ==
    /\ (old_output.exists /\ ~force) => (dpc \in {"start", "exists"} /\ output = old_output)
    /\ dpc = "exists" => (old_output.exists /\ ~force)
    /\ (dpc \notin {"start", "exists"}) => (OldRows(output) = {} /\ OldRows(session.tx) = {})

\* With force, a run over an existing file that held an entry "kitty" has
\* ended with a new entry "kitty" committed.
C14_Witness ==
    /\ dpc = "done"
    /\ force
    /\ old_output = OldStore
    /\ \E i \in 1..Len(output.entries) : output.entries[i].title = "kitty"

\* C15: while populate_database runs and when it ends, every line read has
\* been counted once, as processed or as skipped.
C15_EveryLineCountedOnce ==
    (dpc \in {"loop", "done"}) => processed + skipped = line_num


\* --------------------------------------------------------------------
\* Claims on what the importer persists of a record
\* --------------------------------------------------------------------

\* C16: no Word is persisted without a sense that has definition text:
\* every committed word row has a sense row with at least one gloss row.
C16_NoWordWithoutDefinition ==
    \A i \in 1..Len(db.words) :
        \E n \in 1..Len(db.senses) :
            /\ db.senses[n].word_id = i
            /\ \E g \in 1..Len(db.glosses) : db.glosses[g].sense_id = n

\* C18: the two-record source (cat: one gloss, a synonym "kitty" on the
\* entry; kitty: one gloss, no relation), imported by import_data, leaves 2
\* Word rows, 2 senses and 1 relation, a synonym from cat to kitty.
C18_CatKittyImport ==
    (ipc = "closed" /\ ImportDataCalls /\ stream = <<CatEntry, Kitty>>) =>
        /\ Len(db.words) = 2
        /\ Len(db.senses) = 2
        /\ Len(db.relations) = 1
        /\ db.relations[1].relation_type = "synonym"
        /\ db.words[db.senses[db.relations[1].source_id].word_id].word = "cat"
        /\ db.words[db.senses[db.relations[1].target_id].word_id].word = "kitty"

\* The relation categories of wiktextract records (wiktextract.py 43-50,
\* 82-89) and hyponyms (importer.py 130).
RelationCategories ==
    <<"synonyms", "antonyms", "hypernyms", "hyponyms", "holonyms", "meronyms",
      "coordinate_terms", "derived", "related">>

\* The number of relation entries listed on a record or on a sense, from
\* category k on.
RECURSIVE LinkCount(_, _)
LinkCount(rec, k) ==
    IF k > Len(RelationCategories) THEN 0
    ELSE Len(Get(rec, RelationCategories[k], <<>>)) + LinkCount(rec, k + 1)

RECURSIVE SensesLinkCount(_)
SensesLinkCount(senses) ==
    IF senses = <<>> THEN 0
    ELSE LinkCount(Head(senses), 1) + SensesLinkCount(Tail(senses))

RECURSIVE StreamLinkCount(_)
StreamLinkCount(entries) ==
    IF entries = <<>> THEN 0
    ELSE LinkCount(Head(entries), 1) + SensesLinkCount(Head(entries).senses)
            + StreamLinkCount(Tail(entries))

\* C20: every relation entry of a record, on a sense or on the entry and
\* of whatever category, is persisted as a relation, none is dropped: after
\* import_data the store has as many relations as the stream has relation
\* entries, each from a sense of the record's word to a sense of the linked
\* word.
C20_EveryRelationEntryKept ==
    (ipc = "closed" /\ ImportDataCalls) =>
        /\ Len(db.relations) = StreamLinkCount(stream)
        /\ \A k \in 1..Len(stream) : \A n \in 1..Len(stream[k].senses) :
            \A c \in 1..Len(RelationCategories) :
                \A l \in Range(Get(stream[k].senses[n], RelationCategories[c], <<>>)) :
                    \E r \in 1..Len(db.relations) :
                        /\ db.words[db.senses[db.relations[r].source_id].word_id].word = stream[k].word
                        /\ db.words[db.senses[db.relations[r].target_id].word_id].word = l
                        /\ db.relations[r].relation_type =
                                singularize_relation(RelationCategories[c])


\* --------------------------------------------------------------------
\* from_jsonl on records whose relation lists have several links
\* --------------------------------------------------------------------

\* Records with one definition and, under each relation category, no link
\* or two links.
LinkedEntries ==
    [word : DefinedLiterals,
     senses : { << [definition |-> "d1", examples |-> <<>>] >> },
     synonyms : { <<>>, <<"kitty", "puss">>, <<"kitty", "kitty">> },
     antonyms : { <<>>, <<"kitty", "kitty">> }]

LoadLinkedEntry == LoadFrom(LinkedEntries)

NextJsonlLinks ==
    LoadLinkedEntry \/ EndOfSource \/ ClosureFilter \/ ImportWords \/ ImportTriples

SpecJsonlLinks == InitJsonl /\ [][NextJsonlLinks]_vars

\* --------------------------------------------------------------------
\* Claims on the triples of from_jsonl
\* --------------------------------------------------------------------

\* C17: after from_jsonl no two Triplet rows have the same subject_id,
\* predicate and object_id, also when several records list the same
\* relation.
C17_NoDuplicateTriplets ==
    jpc = "done" =>
        \A i, j \in 1..Len(Triplet) :
            (/\ Triplet[i].subject_id = Triplet[j].subject_id
             /\ Triplet[i].predicate = Triplet[j].predicate
             /\ Triplet[i].object_id = Triplet[j].object_id) => i = j

\* Two records of the same word listed the same synonyms, and edges were
\* stored, the other way round too.
C17_Witness ==
    /\ jpc = "done"
    /\ Len(source) = 2
    /\ source[1].word = source[2].word
    /\ source[1].synonyms # <<>>
    /\ source[1].synonyms = source[2].synonyms
    /\ Len(Triplet) >= 2

\* The predicate names canonicalization is applied to: the raw categories,
\* their canonical forms, and unmapped names.
PredicateNames ==
    {relation_types[i][1] : i \in 1..Len(relation_types)}
        \cup {relation_types[i][2] : i \in 1..Len(relation_types)}
        \cup {"derived", "related", "coordinate_terms"}

\* importer.py 126-133: the canonical name relation_types gives a category;
\* a name that is no key is left as it is.
CanonicalRelationType(x) ==
    IF \E i \in 1..Len(relation_types) : relation_types[i][1] = x
    THEN relation_types[CHOOSE i \in 1..Len(relation_types) : relation_types[i][1] = x][2]
    ELSE x

\* C19: canonicalization is idempotent on every predicate name, mapped or
\* not; and in from_jsonl, where rel is canonicalized again at every link,
\* every link of a relation list is stored under the canonical form of the
\* list's category, and every stored predicate is canonical.
C19_CanonicalizeIdempotent ==
    /\ \A x \in PredicateNames :
        /\ singularize_relation(singularize_relation(x)) = singularize_relation(x)
        /\ CanonicalRelationType(CanonicalRelationType(x)) = CanonicalRelationType(x)
    /\ \A t \in triples : singularize_relation(t[2]) = t[2]
    /\ jpc \in {"load", "filter"} =>
        \A k \in 1..Len(source) :
            \A i \in 1..Len(get_relations(source[k])) :
                \A l \in Range(get_relations(source[k])[i][2]) :
                    <<source[k].word, singularize_relation(get_relations(source[k])[i][1]), l>>
                        \in triples

\* A record listed two synonyms: both are in the triple set under the
\* predicate "synonym".
C19_Witness ==
    /\ jpc = "filter"
    /\ \E k \in 1..Len(source) :
        /\ Len(source[k].synonyms) = 2
        /\ \A n \in 1..2 : <<source[k].word, "synonym", source[k].synonyms[n]>> \in triples


\* --------------------------------------------------------------------
\* Claims on the records populate_database persists
\* --------------------------------------------------------------------

\* The lines validate_entry accepts.
ValidLine(line) == line.json /\ line.object /\ validate_entry(line.data).valid

\* The store holds the entry of the record of a valid line: its title, its
\* part of speech and its senses.
Stored(store, line) ==
    /\ store.exists
    /\ \E i \in 1..Len(store.entries) :
        store.entries[i] = EntryRow(validate_entry(line.data))

\* C21: when populate_database has ended, two records of the same word with
\* different parts of speech are both in the store, each with its own
\* senses.
C21_HomonymsBothPersisted ==
    dpc \in {"done", "failed"} =>
        \A i, j \in 1..Len(lines) :
            (/\ i < j
             /\ ValidLine(lines[i]) /\ ValidLine(lines[j])
             /\ lines[i].data.word = lines[j].data.word
             /\ lines[i].data.pos # lines[j].data.pos)
                => (Stored(output, lines[i]) /\ Stored(output, lines[j]))

\* The entries of the store made from records, not placeholders of linkage
\* targets.
RecordRows(store) ==
    {i \in 1..Len(store.entries) : store.entries[i].part_of_speech # "None"}

\* C28: when populate_database has ended with its final commit, the store
\* holds an entry for every record counted as processed among the lines
\* followed (the lines before them left aside), whatever happened to later
\* lines.
C28_ProcessedRecordsStored ==
    dpc = "done" =>
        Cardinality(RecordRows(output)) >= processed - (line_num - Len(lines))



\* --------------------------------------------------------------------
\* Claims on the traversal as a breadth-first exploration
\* --------------------------------------------------------------------

\* The breadth-first exploration: the state before level 1.
BfsStart(wid) == [visited |-> {wid}, frontier |-> {wid}, edges |-> {}, level |-> 1]

\* One level: the edges incident to the frontier that the allow-list lets
\* through (an allow-list that is absent or empty lets every edge through)
\* are collected, and the next frontier is their endpoints not seen before.
BfsLevel(b, rt) ==
    LET incident == {i \in 1..Len(Triplet) :
                        /\ PredicateFilter(Triplet[i], rt)
                        /\ (Triplet[i].subject_id \in b.frontier
                                \/ Triplet[i].object_id \in b.frontier)}
        seen == {Triplet[i].subject_id : i \in incident}
                    \cup {Triplet[i].object_id : i \in incident}
    IN  [visited |-> b.visited \cup seen, frontier |-> seen \ b.visited,
         edges |-> b.edges \cup incident, level |-> b.level]

RECURSIVE Bfs(_, _, _)
\* The exploration stops once level = max_depth or the frontier is empty.
Bfs(b, max_depth, rt) ==
    LET c == BfsLevel(b, rt)
    IN  IF c.level = max_depth \/ c.frontier = {} THEN c
        ELSE Bfs([c EXCEPT !.level = @ + 1], max_depth, rt)

\* C22: for every graph, start id, depth and allow-list the query returns
\* the edge set of the breadth-first exploration with a visited set.
C22_QueryEqualsBfs ==
    qpc = "done" => Range(result) = Bfs(BfsStart(word_id), depth, rel_types).edges

\* C22 witness: a finished query of depth 3 on a graph with a cycle, a
\* self-loop or parallel edges, where the exploration went beyond level 1
\* and both return the same two or more edges.
C22_Witness ==
    /\ qpc = "done"
    /\ depth = 3
    /\ HasCycleOrParallel
    /\ Len(result) >= 2
    /\ Bfs(BfsStart(word_id), depth, rel_types).level >= 2
    /\ Range(result) = Bfs(BfsStart(word_id), depth, rel_types).edges

\* C23: during a traversal an edge is produced at one level only and once:
\* no two rows of relationship_tree, and no two copies of a row, are of the
\* same edge.
C23_NoEdgeVisitedTwice ==
    \A r1, r2 \in DOMAIN relationship_tree :
        /\ relationship_tree[r1] = 1
        /\ r1.id = r2.id => r1.level = r2.level

\* C30: a call with an empty allow-list returns what the call without an
\* allow-list returns.
C30_EmptyAllowListIsNoFilter ==
    (qpc = "done" /\ rel_types = List(<<>>)) =>
        result = get_relationships_with_depth(word_id, depth, None)

\* C30 witness: a finished call with an empty allow-list that returned edges
\* of two predicates.
C30_Witness ==
    /\ qpc = "done"
    /\ rel_types = List(<<>>)
    /\ \E i, j \in 1..Len(result) : Triplet[result[i]].predicate # Triplet[result[j]].predicate
    /\ result = get_relationships_with_depth(word_id, depth, None)


\* --------------------------------------------------------------------
\* Claims on the batches of the importer
\* --------------------------------------------------------------------

\* The Word rows of source entries among pending rows (the targets of
\* relations have pos "unknown").
PendingEntries == SelectSeq(pending_words, LAMBDA w : w.pos # "unknown")

\* C24: an import_word call counts one entry and empties the pending
\* buffers (a flush) exactly when the count of processed entries has become
\* a multiple of batch_size; and while the session is open the buffers hold
\* the rows of fewer than batch_size entries.
C24_FlushEveryBatchSize ==
    /\ [](ipc = "open" => Len(PendingEntries) < batch_size)
    /\ [][Len(stream') = Len(stream) + 1 =>
            /\ entries_processed' = entries_processed + 1
            /\ (pending_words' = <<>>) <=> (entries_processed' % batch_size = 0)]_vars

\* C24 witness: with batch_size 2, three entries were imported: the first
\* two were flushed and committed, the third is pending.
C24_Witness ==
    /\ ipc = "open"
    /\ batch_size = 2
    /\ entries_processed = 3
    /\ Len(PendingEntries) = 1
    /\ Len(EntryWordRows(db)) = 2

\* A name that is empty or only whitespace.
Blank(name) == name \in {"", " "}

\* C25: resolving a category, topic or tag of a blank name creates no row
\* and no cache entry: no cache holds a blank name, and neither the
\* session nor the store holds a dimension of a blank name.
C25_BlankDimensionSkipped ==
    \A kind \in {"category", "topic", "tag"} :
        /\ \A name \in DOMAIN cache[kind] : ~Blank(name)
        /\ \A n \in 1..Len(session_new) : ~Blank(session_new[n][2])
        /\ \A n \in 1..Len(db[kind]) : ~Blank(db[kind][n].name)


\* --------------------------------------------------------------------
\* from_jsonl on records with one or two definitions
\* --------------------------------------------------------------------

\* Records with one defined sense that has an example and an empty example
\* text, or with two defined senses, and with at most one synonym, defined
\* or not.
SensedEntries ==
    [word : DefinedLiterals,
     senses : { << [definition |-> "d1", examples |-> <<"e1", "">>] >>,
                << [definition |-> "d1", examples |-> <<>>],
                   [definition |-> "d2", examples |-> <<"e2">>] >> },
     synonyms : { <<>>, <<"kitty">>, <<"puss">> },
     antonyms : { <<>> }]

LoadSensedEntry == LoadFrom(SensedEntries)

NextJsonlSenses ==
    LoadSensedEntry \/ EndOfSource \/ ClosureFilter \/ ImportWords \/ ImportTriples

SpecJsonlSenses == InitJsonl /\ [][NextJsonlSenses]_vars

\* --------------------------------------------------------------------
\* Claims on the rows of from_jsonl
\* --------------------------------------------------------------------

\* The ids of the Word rows of a literal.
RowsOf(literal) == {i \in 1..Len(Word) : Word[i].word = literal}

\* C26: for each literal triple handed to _import_triples there is exactly
\* one Triplet row for every pair of a Word row of its subject literal and
\* a Word row of its object literal, and there is no other Triplet row:
\* none for a triple one of whose literals has no Word row.
C26_CrossProductOfRows ==
    jpc = "done" =>
        /\ \A t \in triples : \A a \in RowsOf(t[1]), b \in RowsOf(t[3]) :
              Cardinality({i \in 1..Len(Triplet) :
                  Triplet[i] = [subject_id |-> a, predicate |-> t[2], object_id |-> b]}) = 1
        /\ \A i \in 1..Len(Triplet) : \E t \in triples :
              /\ Triplet[i].subject_id \in RowsOf(t[1])
              /\ Triplet[i].predicate = t[2]
              /\ Triplet[i].object_id \in RowsOf(t[3])

\* C26 witness: a triple whose subject and object literals have two Word
\* rows each gave four edges, and a triple naming a literal without Word
\* row was handed over too.
C26_Witness ==
    /\ jpc = "done"
    /\ \E t \in triples :
          /\ Cardinality(RowsOf(t[1])) = 2 /\ Cardinality(RowsOf(t[3])) = 2
          /\ t[1] # t[3]
    /\ \E t \in triples : RowsOf(t[3]) = {}
    /\ Len(Triplet) >= 4

\* C27: after the closure filter every retained triple has its subject and
\* its object among the retained words, every retained word occurs in a
\* retained triple, and the filter applied again removes nothing.
C27_ClosedSubgraph ==
    jpc \in {"words", "triples", "done"} =>
        /\ \A t \in triples : t[1] \in DataKeys(data) /\ t[3] \in DataKeys(data)
        /\ DataKeys(data) \subseteq LiteralsOfTriples(triples)
        /\ FilterData(data, ClosureWords(data, triples)) = data
        /\ FilterTriples(triples, ClosureWords(data, triples)) = triples

\* The senses of the source, as (record, sense) positions, that have a
\* definition and whose word is retained.
RetainedSenses ==
    {kn \in UNION {{<<k, n>> : n \in 1..Len(source[k].senses)} : k \in 1..Len(source)} :
        /\ source[kn[1]].senses[kn[2]].definition # NoDefinition
        /\ source[kn[1]].word \in DataKeys(data)}

\* The Word row a sense of the source belongs to.
WordOfSense(kn) ==
    [word |-> source[kn[1]].word, definition |-> source[kn[1]].senses[kn[2]].definition]

\* C29: after from_jsonl there is exactly one Word row per (literal,
\* definition) pair of a retained word; every Example row has a non-empty
\* text and is attached to the Word row of a definition under which the
\* source lists that text; and every non-empty example text of a retained
\* sense is stored with the Word row of its definition.
C29_ExamplesFollowDefinitions ==
    jpc = "done" =>
        /\ \A i, j \in 1..Len(Word) : Word[i] = Word[j] => i = j
        /\ Range(Word) = {WordOfSense(kn) : kn \in RetainedSenses}
        /\ \A e \in 1..Len(Example) :
              /\ Example[e].example # ""
              /\ Example[e].word_id \in 1..Len(Word)
              /\ \E kn \in RetainedSenses :
                    /\ WordOfSense(kn) = Word[Example[e].word_id]
                    /\ Example[e].example \in Range(source[kn[1]].senses[kn[2]].examples)
        /\ \A kn \in RetainedSenses :
              \A x \in Range(source[kn[1]].senses[kn[2]].examples) \ {""} :
                  \E e \in 1..Len(Example) :
                      /\ Example[e].example = x
                      /\ Word[Example[e].word_id] = WordOfSense(kn)

\* C29 witness: a literal has two Word rows and an example is attached to
\* the second; the Word rows filled more than one batch; a source sense
\* listed an empty example text.
C29_Witness ==
    /\ jpc = "done"
    /\ Len(Word) > BATCH_SIZE
    /\ \E e \in 1..Len(Example) :
          \E i \in 1..Len(Word) :
              /\ i < Example[e].word_id
              /\ Word[i].word = Word[Example[e].word_id].word
    /\ \E kn \in RetainedSenses : "" \in Range(source[kn[1]].senses[kn[2]].examples)


=============================================================================
